---- MODULE Spec2Model ----
(***************************************************************************)
(* Lead ingestion (api/submit.js), lead search and lead listing handlers.  *)
(*                                                                         *)
(* Strings are sequences of one-character strings, so that lower-casing,   *)
(* slugification and slicing are computed character by character.  A JSON  *)
(* value of the request body is a record [t, v]: t is its JavaScript type  *)
(* ("str" or "num") and v its characters.  An object (payload, doc) is a   *)
(* function from its keys to such values.                                  *)
(***************************************************************************)
EXTENDS Integers, Sequences, FiniteSets, TLC

\* ---------------------------------------------------------------- bounds
\* Last tick of the server clock (new Date() returns a tick in 0..MaxClock).
MaxClock == 1
\* Ticks per calendar day: the date part of a timestamp is tick \div TicksPerDay.
TicksPerDay == 2
\* Number of handler invocations that may be in flight.
NumProcs == 2

Procs == 1 .. NumProcs

\* ------------------------------------------------------------- characters
Lower == <<"a","b","c","d","e","f","g","h","i","j","k","l","m",
           "n","o","p","q","r","s","t","u","v","w","x","y","z">>
Upper == <<"A","B","C","D","E","F","G","H","I","J","K","L","M",
           "N","O","P","Q","R","S","T","U","V","W","X","Y","Z">>
Digits == <<"0","1","2","3","4","5","6","7","8","9">>

Range(s) == { s[i] : i \in DOMAIN s }

\* String.prototype.toLowerCase, one character.
ToLowerChar(c) ==
  IF \E i \in DOMAIN Upper : Upper[i] = c
  THEN Lower[CHOOSE i \in DOMAIN Upper : Upper[i] = c]
  ELSE c

\* String.prototype.toLowerCase.
ToLowerCase(s) == [i \in DOMAIN s |-> ToLowerChar(s[i])]

\* The character class [a-z0-9] of slug's first replace.
IsAlnum(c) == c \in Range(Lower) \cup Range(Digits)

\* s.replace(/[^a-z0-9]+/g, '-'): every maximal run of other characters
\* becomes one hyphen.
RECURSIVE CollapseRuns(_)
CollapseRuns(s) ==
  IF s = <<>> THEN <<>>
  ELSE IF IsAlnum(Head(s)) THEN <<Head(s)>> \o CollapseRuns(Tail(s))
  ELSE IF Len(s) > 1 /\ ~IsAlnum(s[2]) THEN CollapseRuns(Tail(s))
  ELSE <<"-">> \o CollapseRuns(Tail(s))

\* s.replace(/(^-|-$)/g, ''): one hyphen off the front, one off the end.
TrimHyphens(s) ==
  LET a == IF s # <<>> /\ Head(s) = "-" THEN Tail(s) ELSE s
  IN  IF a # <<>> /\ a[Len(a)] = "-" THEN SubSeq(a, 1, Len(a) - 1) ELSE a

slugTrimFirst(val, fallback) ==
  IF val = <<>> THEN fallback
  ELSE LET s == CollapseRuns(TrimHyphens(ToLowerCase(val)))
       IN  IF s = <<>> THEN fallback ELSE s

\* slug(val, fallback)
slug(val, fallback) ==
  IF val = <<>> THEN fallback
  ELSE LET s == TrimHyphens(CollapseRuns(ToLowerCase(val)))
       IN  IF s = <<>> THEN fallback ELSE s

\* The longest value given to slug, and the characters it is made of.
MaxSlugLen == 3
SlugChars  == {"a", "B", "1", "-", " "}
SlugInputs == UNION { [1 .. n -> SlugChars] : n \in 0 .. MaxSlugLen }

\* --------------------------------------------------------------- literals
S_final  == <<"f","i","n","a","l">>
S_leads  == <<"l","e","a","d","s">>
S_na     == <<"n","a">>
S_web    == <<"w","e","b">>
S_direct == <<"d","i","r","e","c","t">>
S_none   == <<"(","n","o","n","e",")">>

Str(chars) == [t |-> "str", v |-> chars]
Num(chars) == [t |-> "num", v |-> chars]

\* JavaScript truthiness of a body value.
Truthy(x) == IF x.t = "str" THEN x.v # <<>> ELSE x.v # <<"0">>

\* String(x) / template-literal conversion of a body value.
ToStr(x) == x.v

\* ---------------------------------------------------------------- objects
EmptyObj == [k \in {} |-> Str(<<>>)]

Has(obj, k) == k \in DOMAIN obj

\* { ...a, ...b }: on a key of both, the later spread wins.
Spread(a, b) ==
  [k \in DOMAIN a \cup DOMAIN b |-> IF k \in DOMAIN b THEN b[k] ELSE a[k]]

\* ------------------------------------------------------------ environment
EnvVars == {"AWS_S3_BUCKET", "AWS_REGION", "DDB_TABLE", "DDB_REGION",
            "SES_TO", "SES_FROM", "SES_REGION", "HUBSPOT_TOKEN", "CLOSE_API_KEY",
            "ADMIN_TOKEN"}

\* process.env: which variables are set.  AWS_S3_PREFIX is left unset, so the
\* prefix is its default 'leads'; the AWS SDK packages are installed.  The
\* fallback regions DDB_REGION and SES_REGION are read only when AWS_REGION is
\* unset (a || b), so they vary only then.  The submit handler never reads
\* ADMIN_TOKEN, which is set.
Envs == { e \in [EnvVars -> BOOLEAN] :
            /\ e["AWS_REGION"] => ~e["DDB_REGION"] /\ ~e["SES_REGION"]
            /\ e["ADMIN_TOKEN"] }

\* ------------------------------------------------------------------ inputs
\* Request headers x-forwarded-for and user-agent.
HeaderIp == <<"1","0">>
HeaderUa == <<"u","a">>

\* What a request body may say under each key: nothing (<<>>) or one value.
IdChoices     == { <<>>, <<Str(<<>>)>>, <<Num(<<"7">>)>>, <<Str(<<"a">>)>> }
StatusChoices == { <<>>, <<Str(<<>>)>>, <<Num(<<"7">>)>>, <<Str(S_final)>>,
                   <<Str(<<"F","I","N","A","L">>)>>,
                   <<Str(<<"N","e","w"," ","1">>)>> }
StampChoices  == { <<>>, <<Str(<<"x">>)>> }
EmailChoices  == { <<Str(<<"e","@","x">>)>> }

\* A body names received_at and ip together or not at all.
Bodies == { b \in [id : IdChoices, status : StatusChoices,
                    received_at : StampChoices, ip : StampChoices,
                    email : EmailChoices] :
              (b.received_at = <<>>) <=> (b.ip = <<>>) }

\* The bodies of the shared-store specification: one id, two statuses.
SharedBodies == [id : { <<Str(<<"a">>)>> },
                 status : { <<Str(S_final)>>, <<Str(<<"n","e","w">>)>> },
                 received_at : { <<>> }, ip : { <<>> }, email : EmailChoices]

Methods == {"POST", "GET", "OPTIONS"}

\* The decoded body as an object: the keys the body carries.
PayloadOf(b) == [k \in { k \in DOMAIN b : b[k] # <<>> } |-> b[k][1]]

\* ------------------------------------------------------------------- state
VARIABLES
  env,         \* process.env
  now,         \* the server clock
  uuids,       \* how many identifiers uuid() has generated
  s3,          \* the bucket: a set of objects [Key, Body]
  ddb,         \* the table: a set of items, at most one per id
  pc,          \* pc[p]: where invocation p of the submit handler stands
  method,      \* method[p]: req.method
  payload,     \* payload[p]
  receivedAt,  \* receivedAt[p]: the tick new Date() returned
  status,      \* status[p]
  doc,         \* doc[p]
  stored,      \* stored[p]
  key,         \* key[p]
  calls,       \* calls[p]: the sink calls issued so far, each with its outcome
  responses,   \* responses[p]: the responses sent so far
  spc,         \* where the leads-search handler stands
  sreq,        \* the search request, as far as the handler has read it
  params,      \* the QueryCommand input the handler has built
  reads,       \* the reads of the table issued so far
  sresponses,  \* the responses the leads-search handler has sent
  lpc,         \* where the leads-list handler stands
  lreq,        \* the list request
  ltop,        \* the keys of the objects the handler has still to fetch
  litems,      \* the documents fetched so far
  lcalls,      \* the calls to the bucket issued so far, each with its outcome
  lresponses,  \* the responses the leads-list handler has sent
  slugIn,      \* a value given to slug
  slugOut      \* the results of slug applied to it, and to its own result

vars == <<env, now, uuids, s3, ddb, pc, method, payload, receivedAt, status, doc,
          stored, key, calls, responses, spc, sreq, params, reads, sresponses,
          lpc, lreq, ltop, litems, lcalls, lresponses, slugIn, slugOut>>

list   == <<lpc, lreq, ltop, litems, lcalls, lresponses>>
search == <<spc, sreq, params, reads, sresponses>>

world  == <<s3, ddb>>
locals == <<payload, receivedAt, status, doc, stored, key>>
pure   == <<slugIn, slugOut>>
fixed  == <<env, search, list, pure, now, uuids, method>>

\* -------------------------------------------------------------- timestamps
\* Date.prototype.toISOString: the date, 'T', the time of day.
toISOString(t) ==
  <<Digits[(t \div TicksPerDay) + 1], "T", Digits[(t % TicksPerDay) + 1]>>

\* toISOString().slice(0, 10): the date, which is the first character here.
DatePart(iso) == SubSeq(iso, 1, 1)

\* uuid(): the n-th generated identifier.
uuid(n) == <<"u", Digits[n + 1]>>

\* The search request before any of it is read, and no QueryCommand input.
NoRequest == [k \in {} |-> <<>>]
NoParams  == [IndexName |-> "none"]

\* ---------------------------------------------------------------- handler
\* No handler has been invoked.
Idle ==
  /\ now = 0
  /\ uuids = 0
  /\ pc = [p \in Procs |-> "idle"]
  /\ method = [p \in Procs |-> "POST"]
  /\ payload = [p \in Procs |-> EmptyObj]
  /\ receivedAt = [p \in Procs |-> 0]
  /\ status = [p \in Procs |-> <<>>]
  /\ doc = [p \in Procs |-> EmptyObj]
  /\ stored = [p \in Procs |-> "none"]
  /\ key = [p \in Procs |-> <<>>]
  /\ calls = [p \in Procs |-> <<>>]
  /\ responses = [p \in Procs |-> <<>>]
  /\ spc = "idle"
  /\ sreq = NoRequest
  /\ params = NoParams
  /\ reads = <<>>
  /\ sresponses = <<>>
  /\ lpc = "idle"
  /\ lreq = NoRequest
  /\ ltop = <<>>
  /\ litems = <<>>
  /\ lcalls = <<>>
  /\ lresponses = <<>>

Init ==
  /\ env \in Envs
  /\ s3 = {}
  /\ ddb = {}
  /\ slugIn = <<>>
  /\ slugOut = <<>>
  /\ Idle

\* json(res, status, body): one response sent.
json(p, code, body) ==
  responses' = [responses EXCEPT ![p] = Append(@, [code |-> code, body |-> body])]

\* clientId: payload.id when it is a non-empty string.
ClientId(pl) ==
  IF Has(pl, "id") /\ pl["id"].t = "str" /\ Truthy(pl["id"]) THEN <<pl["id"]>> ELSE <<>>

\* status: payload.status lower-cased when it is a non-empty string, else 'final'.
StatusOf(pl) ==
  IF Has(pl, "status") /\ pl["status"].t = "str" /\ Truthy(pl["status"])
  THEN ToLowerCase(pl["status"].v)
  ELSE S_final

\* The doc literal: the server's fields, then ...payload.
BuildDoc(pl, id, st, t) ==
  Spread([k \in {"id", "status", "received_at", "ip", "user_agent"} |->
            CASE k = "id" -> id
              [] k = "status" -> Str(st)
              [] k = "received_at" -> Str(toISOString(t))
              [] k = "ip" -> Str(HeaderIp)
              [] OTHER -> Str(HeaderUa)],
         pl)

\* The handler up to the document: method checks, body, metadata.
Receive(p, bodies) ==
  /\ pc[p] = "idle"
  /\ \E m \in Methods, b \in bodies, t \in now .. MaxClock :
       /\ method' = [method EXCEPT ![p] = m]
       /\ IF m = "OPTIONS"
          THEN /\ json(p, 204, EmptyObj)
               /\ pc' = [pc EXCEPT ![p] = "done"]
               /\ UNCHANGED <<now, uuids, locals>>
          ELSE IF m # "POST"
          THEN /\ json(p, 405, [error |-> "Method Not Allowed"])
               /\ pc' = [pc EXCEPT ![p] = "done"]
               /\ UNCHANGED <<now, uuids, locals>>
          ELSE LET pl == PayloadOf(b)
                   cid == ClientId(pl)
                   id == IF cid # <<>> THEN cid[1] ELSE Str(uuid(uuids))
                   st == StatusOf(pl)
               IN  /\ now' = t
                   /\ uuids' = IF cid # <<>> THEN uuids ELSE uuids + 1
                   /\ payload' = [payload EXCEPT ![p] = pl]
                   /\ receivedAt' = [receivedAt EXCEPT ![p] = t]
                   /\ status' = [status EXCEPT ![p] = st]
                   /\ doc' = [doc EXCEPT ![p] = BuildDoc(pl, id, st, t)]
                   /\ stored' = [stored EXCEPT ![p] = "none"]
                   /\ key' = [key EXCEPT ![p] = <<>>]
                   /\ pc' = [pc EXCEPT ![p] = "storage"]
                   /\ UNCHANGED responses
  /\ UNCHANGED <<env, search, list, pure, world, calls>>

\* (payload.k) || dflt, as a string.
FieldOr(pl, k, dflt) == IF Has(pl, k) /\ Truthy(pl[k]) THEN ToStr(pl[k]) ELSE dflt

\* The object key.  The bodies carry no nested data object, so industry and
\* utm_source take their defaults 'na' and 'direct'.
KeyOf(st, t, pl, d) ==
  LET datePart   == DatePart(toISOString(t))
      statusPart == slug(IF st # <<>> THEN st ELSE S_final, S_na)
      source     == slug(FieldOr(pl, "source", S_web), S_na)
      industry   == slug(S_na, S_na)
      utmSource  == slug(S_direct, S_na)
  IN  S_leads \o <<"/">> \o statusPart \o <<"/">> \o datePart
        \o <<"/","s","o","u","r","c","e","=">> \o source
        \o <<"/","u","t","m","=">> \o utmSource
        \o <<"/","i","n","d","u","s","t","r","y","=">> \o industry
        \o <<"/">> \o ToStr(d["id"]) \o <<".","j","s","o","n">>

\* PutObject: the object under Key is created or replaced.
PutObject(bucket, k, body) ==
  { o \in bucket : o.Key # k }
    \cup { [Key |-> k, Body |-> body, LastModified |-> now] }

\* PutItem: the item with the same id is created or replaced.
PutItem(table, item) ==
  { i \in table : i.id # item.id } \cup { item }

Outcomes == {"ok", "raise"}

Call(p, c) == calls' = [calls EXCEPT ![p] = Append(@, c)]

\* The order of the blocks of the handler.
NextStageIndexLast(stage) ==
  CASE stage = "storage" -> "notify"
    [] stage = "notify"  -> "crmA"
    [] stage = "crmA"    -> "crmB"
    [] stage = "crmB"    -> "index"
    [] stage = "index"   -> "respond"

NextStage(stage) ==
  CASE stage = "storage" -> "index"
    [] stage = "index"   -> "notify"
    [] stage = "notify"  -> "crmA"
    [] stage = "crmA"    -> "crmB"
    [] stage = "crmB"    -> "respond"

\* A block without its catch: the error leaves the handler, the platform
\* answers 500.
ContinueUncaught(p, out, stage) ==
  IF out = "raise"
  THEN /\ pc' = [pc EXCEPT ![p] = "done"]
       /\ json(p, 500, [error |-> "Internal Server Error"])
  ELSE /\ pc' = [pc EXCEPT ![p] = NextStage(stage)]
       /\ UNCHANGED responses

\* The Close block inside the HubSpot block's try.
ContinueOneTry(p, out, stage) ==
  /\ pc' = [pc EXCEPT ![p] = IF out = "raise" /\ stage = "crmA"
                             THEN "respond" ELSE NextStage(stage)]
  /\ UNCHANGED responses

\* The end of a block: skipped, succeeded, or its error caught and logged, the
\* handler goes on with the next block and nothing is sent.
Continue(p, out, stage) ==
  /\ pc' = [pc EXCEPT ![p] = NextStage(stage)]
  /\ UNCHANGED responses

\* if (bucket && region && S3Client && PutObjectCommand)
StorageConfigured == env["AWS_S3_BUCKET"] /\ env["AWS_REGION"]

KeyAfterErrorKept(k) == k

\* catch (err) { stored = 'error'; key = ''; }
KeyAfterError(k) == <<>>

\* The storage block: one PutObject when configured.
StorageSink(p) ==
  /\ pc[p] = "storage"
  /\ IF StorageConfigured
     THEN \E out \in Outcomes :
            LET k == KeyOf(status[p], receivedAt[p], payload[p], doc[p])
            IN  /\ Call(p, [sink |-> "s3", out |-> out, key |-> k])
                /\ IF out = "ok"
                   THEN /\ s3' = PutObject(s3, k, doc[p])
                        /\ stored' = [stored EXCEPT ![p] = "s3"]
                        /\ key' = [key EXCEPT ![p] = k]
                   ELSE /\ s3' = s3
                        /\ stored' = [stored EXCEPT ![p] = "error"]
                        /\ key' = [key EXCEPT ![p] = KeyAfterError(k)]
                /\ Continue(p, out, "storage")
     ELSE /\ UNCHANGED <<s3, stored, key, calls>>
          /\ Continue(p, "skip", "storage")
  /\ UNCHANGED <<fixed, ddb, payload, receivedAt, status, doc>>

\* if (table && ddbRegion && DynamoDBClient && PutItemCommand)
IndexConfigured == env["DDB_TABLE"] /\ (env["AWS_REGION"] \/ env["DDB_REGION"])

IndexItemNoKey(d, pl, k) ==
  [id          |-> d["id"],
   status      |-> IF Truthy(d["status"]) THEN ToStr(d["status"]) ELSE S_final,
   received_at |-> d["received_at"],
   email       |-> FieldOr(pl, "email", <<>>),
   utm_source  |-> S_direct,
   s3_key      |-> <<>>]

\* The summary item (data is the payload itself: no nested data object).
IndexItem(d, pl, k) ==
  [id          |-> d["id"],
   status      |-> IF Truthy(d["status"]) THEN ToStr(d["status"]) ELSE S_final,
   received_at |-> d["received_at"],
   email       |-> FieldOr(pl, "email", <<>>),
   utm_source  |-> S_direct,
   s3_key      |-> k]

\* The index block: one PutItem when configured.
IndexSink(p) ==
  /\ pc[p] = "index"
  /\ IF IndexConfigured
     THEN \E out \in Outcomes :
            LET item == IndexItem(doc[p], payload[p], key[p])
            IN  /\ Call(p, [sink |-> "ddb", out |-> out, key |-> item.s3_key])
                /\ ddb' = IF out = "ok" THEN PutItem(ddb, item) ELSE ddb
                /\ Continue(p, out, "index")
     ELSE /\ UNCHANGED <<ddb, calls>>
          /\ Continue(p, "skip", "index")
  /\ UNCHANGED <<fixed, s3, locals>>

NotifyConfiguredAnyStatus(st) ==
  /\ env["SES_TO"]
  /\ env["SES_FROM"]
  /\ env["SES_REGION"] \/ env["AWS_REGION"]

\* if (status === 'final' && sesTo && sesFrom && sesRegion && ...)
NotifyConfigured(st) ==
  /\ st = S_final
  /\ env["SES_TO"]
  /\ env["SES_FROM"]
  /\ env["SES_REGION"] \/ env["AWS_REGION"]

\* The email block: the text names the key, or '(none)'.
NotificationSink(p) ==
  /\ pc[p] = "notify"
  /\ IF NotifyConfigured(status[p])
     THEN \E out \in Outcomes :
            /\ Call(p, [sink |-> "ses", out |-> out,
                        key |-> IF key[p] # <<>> THEN key[p] ELSE S_none])
            /\ Continue(p, out, "notify")
     ELSE /\ UNCHANGED calls
          /\ Continue(p, "skip", "notify")
  /\ UNCHANGED <<fixed, world, locals>>

\* if (status === 'final') { if (process.env.HUBSPOT_TOKEN) ...
CrmAConfigured(st) == st = S_final /\ env["HUBSPOT_TOKEN"]

\* The HubSpot block.
CrmA(p) ==
  /\ pc[p] = "crmA"
  /\ IF CrmAConfigured(status[p])
     THEN \E out \in Outcomes :
            /\ Call(p, [sink |-> "hubspot", out |-> out,
                        email |-> FieldOr(payload[p], "email", <<>>)])
            /\ Continue(p, out, "crmA")
     ELSE /\ UNCHANGED calls
          /\ Continue(p, "skip", "crmA")
  /\ UNCHANGED <<fixed, world, locals>>

\* if (status === 'final') { ... if (process.env.CLOSE_API_KEY) ...
CrmBConfigured(st) == st = S_final /\ env["CLOSE_API_KEY"]

\* The Close block.
CrmB(p) ==
  /\ pc[p] = "crmB"
  /\ IF CrmBConfigured(status[p])
     THEN \E out \in Outcomes :
            /\ Call(p, [sink |-> "close", out |-> out,
                        email |-> FieldOr(payload[p], "email", <<>>)])
            /\ Continue(p, out, "crmB")
     ELSE /\ UNCHANGED calls
          /\ Continue(p, "skip", "crmB")
  /\ UNCHANGED <<fixed, world, locals>>

\* { ok: true, stored, key, id: doc.id, status: doc.status }
ResponseBody(p) ==
  [ok |-> TRUE, stored |-> stored[p], key |-> key[p],
   id |-> doc[p]["id"], status |-> doc[p]["status"]]

\* return ok(res, ...)
Respond(p) ==
  /\ pc[p] = "respond"
  /\ json(p, 200, ResponseBody(p))
  /\ pc' = [pc EXCEPT ![p] = "done"]
  /\ UNCHANGED <<fixed, world, locals, calls>>

\* One invocation of the submit handler, over every body.  Each block is one
\* step: its await settles, with a result or an error.
Next ==
  \/ Receive(1, Bodies)
  \/ StorageSink(1)
  \/ IndexSink(1)
  \/ NotificationSink(1)
  \/ CrmA(1)
  \/ CrmB(1)
  \/ Respond(1)

Spec == Init /\ [][Next]_vars

\* Every invocation at once over one bucket and one table, with the bodies
\* narrowed to one id.
NextShared ==
  \E p \in Procs :
    \/ Receive(p, SharedBodies)
    \/ StorageSink(p)
    \/ IndexSink(p)
    \/ NotificationSink(p)
    \/ CrmA(p)
    \/ CrmB(p)
    \/ Respond(p)

\* Storage and index configured; email and CRM credentials set or not.
InitShared ==
  /\ Init
  /\ env["AWS_S3_BUCKET"] /\ env["AWS_REGION"] /\ env["DDB_TABLE"]
  /\ env["SES_TO"] = env["SES_FROM"]
  /\ env["HUBSPOT_TOKEN"] = env["SES_TO"]
  /\ env["CLOSE_API_KEY"] = env["SES_TO"]

SpecShared == InitShared /\ [][NextShared]_vars

\* --------------------------------------------------------------------- slug
\* slug is applied to a value, and then to its own result.
SlugApply ==
  /\ Len(slugOut) < 2
  /\ slugOut' = Append(slugOut,
                       slug(IF slugOut = <<>> THEN slugIn ELSE slugOut[Len(slugOut)],
                            S_na))
  /\ UNCHANGED <<env, now, uuids, world, pc, method, locals, calls, responses,
                 search, list, slugIn>>

InitSlug ==
  /\ env = [v \in EnvVars |-> FALSE]
  /\ s3 = {}
  /\ ddb = {}
  /\ slugIn \in SlugInputs
  /\ slugOut = <<>>
  /\ Idle

NextSlug == SlugApply

SpecSlug == InitSlug /\ [][NextSlug]_vars

\* ------------------------------------------------------------ leads-search
\* The printable ASCII characters, from the space (code 32) to the tilde; the
\* grave accent (code 96), which no string of the model holds, is written
\* "grave".
Ascii == <<" ","!","\"","#","$","%","&","'","(",")","*","+",",","-",".","/",
           "0","1","2","3","4","5","6","7","8","9",":",";","<","=",">","?",
           "@","A","B","C","D","E","F","G","H","I","J","K","L","M","N","O",
           "P","Q","R","S","T","U","V","W","X","Y","Z","[","\\","]","^","_",
           "grave","a","b","c","d","e","f","g","h","i","j","k","l","m","n","o",
           "p","q","r","s","t","u","v","w","x","y","z","{","|","}","~">>

\* The character code of c.
Code(c) == 31 + (CHOOSE i \in DOMAIN Ascii : Ascii[i] = c)

\* a <= b as strings, by character codes.
RECURSIVE StrLeq(_, _)
StrLeq(a, b) ==
  IF a = <<>> THEN TRUE
  ELSE IF b = <<>> THEN FALSE
  ELSE IF Head(a) = Head(b) THEN StrLeq(Tail(a), Tail(b))
  ELSE Code(Head(a)) < Code(Head(b))

\* An attribute of a table item, as a string.
Attr(item, a) == IF a \in {"id", "received_at"} THEN ToStr(item[a]) ELSE item[a]

\* String.prototype.trim
RECURSIVE TrimLeft(_)
TrimLeft(s) == IF s # <<>> /\ Head(s) = " " THEN TrimLeft(Tail(s)) ELSE s

RECURSIVE TrimRight(_)
TrimRight(s) ==
  IF s # <<>> /\ s[Len(s)] = " " THEN TrimRight(SubSeq(s, 1, Len(s) - 1)) ELSE s

Trim(s) == TrimRight(TrimLeft(s))

\* The value of a decimal digit.
DigitValue(c) == (CHOOSE i \in DOMAIN Digits : Digits[i] = c) - 1

IsDigit(c) == c \in Range(Digits)

\* The leading digits of s, as a number, from the accumulator acc.
RECURSIVE LeadingDigits(_, _)
LeadingDigits(s, acc) ==
  IF s # <<>> /\ IsDigit(Head(s))
  THEN LeadingDigits(Tail(s), 10 * acc + DigitValue(Head(s)))
  ELSE acc

\* parseInt(s, 10): <<n>>, or <<>> for NaN.
parseInt(s) ==
  LET a == TrimLeft(s)
      neg == a # <<>> /\ Head(a) = "-"
      b == IF a # <<>> /\ Head(a) \in {"-", "+"} THEN Tail(a) ELSE a
  IN  IF b = <<>> \/ ~IsDigit(Head(b)) THEN <<>>
      ELSE <<IF neg THEN 0 - LeadingDigits(b, 0) ELSE LeadingDigits(b, 0)>>

\* url.searchParams.get(k) || dflt: an absent or empty parameter gives dflt.
ParamOr(q, k, dflt) == IF q[k] # <<>> /\ q[k][1] # <<>> THEN q[k][1] ELSE dflt

LimitOfUncapped(q) ==
  LET n == parseInt(ParamOr(q, "limit", <<"5","0">>))
  IN  IF n = <<>> \/ n[1] = 0 THEN 50 ELSE n[1]

\* Math.min(parseInt(limit || '50', 10) || 50, 200)
LimitOf(q) ==
  LET n == parseInt(ParamOr(q, "limit", <<"5","0">>))
      v == IF n = <<>> \/ n[1] = 0 THEN 50 ELSE n[1]
  IN  IF v < 200 THEN v ELSE 200

\* The admin secret, and a key that is not it.
AdminSecret == <<"k","e","y">>
WrongKey    == <<"k","e","Y">>

SearchMethods == {"GET", "POST", "OPTIONS"}
KeyParams     == { <<>>, <<AdminSecret>>, <<WrongKey>> }
KeyHeaders    == { <<>>, <<AdminSecret>> }

\* What the query string may say under each filter: nothing or one value.
EmailParams  == { <<>>, <<<<" ">>>>, <<<<"e","@","x">>>> }
StatusParams == { <<>>, <<<<" ">>>>, <<<<"f","i","n","a","l"," ">>>> }
UtmParams    == { <<>>, <<<<" ">>>>, <<S_direct>> }
FromParams   == { <<>>, <<<<"0","T","1">>>> }
ToParams     == { <<>>, <<<<"0","T","1">>>> }
LimitParams  == { <<>>, <<<<"1">>>>, <<<<"5","0","0">>>>, <<<<"0">>>>,
                  <<<<"-","1">>>>, <<<<"x">>>> }

\* The environments of the search and list handlers.
SearchEnvs ==
  { e \in [EnvVars -> BOOLEAN] :
      \A v \in EnvVars \ {"ADMIN_TOKEN", "AWS_REGION", "DDB_TABLE",
                           "AWS_S3_BUCKET"} : ~e[v] }

\* The items the table holds when the searches start, as the index block
\* writes them.
SeedItem(id, st, t, email) ==
  [id |-> Str(id), status |-> st, received_at |-> Str(toISOString(t)),
   email |-> email, utm_source |-> S_direct, s3_key |-> <<>>]

SeedTable ==
  { SeedItem(<<"a">>, S_final, 0, <<"e","@","x">>),
    SeedItem(<<"b">>, S_final, 1, <<"e","@","x">>),
    SeedItem(<<"c">>, <<"n","e","w">>, 1, <<>>) }

\* The objects the bucket holds when the listings start, as the storage block
\* writes them.
SeedObject(id, st, t) ==
  LET d == BuildDoc(EmptyObj, Str(id), st, t)
  IN  [Key |-> KeyOf(st, t, EmptyObj, d), Body |-> d, LastModified |-> t]

SeedBucket ==
  { SeedObject(<<"a">>, S_final, 0),
    SeedObject(<<"b">>, S_final, 1),
    SeedObject(<<"d">>, S_final, 1),
    SeedObject(<<"c">>, <<"n","e","w">>, 1) }

\* ------------------------------------------------------ pagination cursor
B64 == Upper \o Lower \o Digits \o <<"+", "/">>

\* text -> bytes (Buffer.from(text)) and bytes -> text (toString('utf8')): a
\* byte that is no printable ASCII character decodes to a character written
\* "bad".
Bytes(text) == [i \in DOMAIN text |-> Code(text[i])]

Utf8(bytes) ==
  [i \in DOMAIN bytes |->
     IF bytes[i] >= 32 /\ bytes[i] <= 126 THEN Ascii[bytes[i] - 31] ELSE "bad"]

\* toString('base64'): three bytes to four characters, '=' padding.
RECURSIVE Base64Encode(_)
Base64Encode(bytes) ==
  IF bytes = <<>> THEN <<>>
  ELSE LET n  == Len(bytes)
           b1 == bytes[1]
           b2 == IF n >= 2 THEN bytes[2] ELSE 0
           b3 == IF n >= 3 THEN bytes[3] ELSE 0
           w  == b1 * 65536 + b2 * 256 + b3
       IN  << B64[(w \div 262144) + 1],
              B64[((w \div 4096) % 64) + 1],
              IF n >= 2 THEN B64[((w \div 64) % 64) + 1] ELSE "=",
              IF n >= 3 THEN B64[(w % 64) + 1] ELSE "=" >>
           \o (IF n > 3 THEN Base64Encode(SubSeq(bytes, 4, n)) ELSE <<>>)

\* The value of a base64 character ('-' and '_' are accepted for '+' and '/').
IsB64(c) == c \in Range(B64) \cup {"-", "_"}

B64Value(c) ==
  IF c = "-" THEN 62
  ELSE IF c = "_" THEN 63
  ELSE (CHOOSE i \in DOMAIN B64 : B64[i] = c) - 1

\* The base64 characters of s up to the first '=', other characters skipped.
RECURSIVE B64Chars(_)
B64Chars(s) ==
  IF s = <<>> \/ Head(s) = "=" THEN <<>>
  ELSE (IF IsB64(Head(s)) THEN <<Head(s)>> ELSE <<>>) \o B64Chars(Tail(s))

RECURSIVE DecodeGroups(_)
DecodeGroups(cs) ==
  IF Len(cs) < 2 THEN <<>>
  ELSE LET n  == Len(cs)
           v1 == B64Value(cs[1])
           v2 == B64Value(cs[2])
           v3 == IF n >= 3 THEN B64Value(cs[3]) ELSE 0
           v4 == IF n >= 4 THEN B64Value(cs[4]) ELSE 0
           w  == v1 * 262144 + v2 * 4096 + v3 * 64 + v4
       IN  <<w \div 65536>>
           \o (IF n >= 3 THEN <<(w \div 256) % 256>> ELSE <<>>)
           \o (IF n >= 4 THEN <<w % 256>> ELSE <<>>)
           \o (IF n > 4 THEN DecodeGroups(SubSeq(cs, 5, n)) ELSE <<>>)

\* Buffer.from(s, 'base64')
Base64Decode(s) == DecodeGroups(B64Chars(s))

\* A position in an index: the key attributes of the last item read.
KeyOfItem(item) ==
  [t |-> "key", id |-> Attr(item, "id"), received_at |-> Attr(item, "received_at")]

\* The JSON values a token may hold: the positions of the table, and a number.
JsonNumber == [t |-> "num", id |-> <<"7">>, received_at |-> <<>>]
JsonValues == { KeyOfItem(i) : i \in SeedTable } \cup { JsonNumber }

Quoted(chars) == <<"\"">> \o chars \o <<"\"">>

\* JSON.stringify
stringify(v) ==
  IF v.t = "num" THEN v.id
  ELSE <<"{">> \o Quoted(<<"i","d">>) \o <<":","{">> \o Quoted(<<"S">>) \o <<":">>
         \o Quoted(v.id) \o <<"}",",">>
         \o Quoted(<<"r","e","c","e","i","v","e","d","_","a","t">>)
         \o <<":","{">> \o Quoted(<<"S">>) \o <<":">> \o Quoted(v.received_at)
         \o <<"}","}">>

\* JSON.parse: <<v>> for the text of a value, <<>> when it throws.
parse(text) ==
  IF \E v \in JsonValues : stringify(v) = text
  THEN <<CHOOSE v \in JsonValues : stringify(v) = text>>
  ELSE <<>>

EncodeTokenFirstOperand(lastKey) ==
  IF lastKey = <<>> THEN <<>>
  ELSE <<Utf8(Base64Decode(stringify(lastKey[1])))>>

\* LastEvaluatedKey ? Buffer.from(JSON.stringify(k), 'base64').toString('utf8')
\*   && Buffer.from(JSON.stringify(k)).toString('base64') : null
\* (<<>> is null, <<token>> a string).
EncodeToken(lastKey) ==
  IF lastKey = <<>> THEN <<>>
  ELSE LET text == stringify(lastKey[1])
       IN  IF Utf8(Base64Decode(text)) = <<>> THEN << <<>> >>
           ELSE <<Base64Encode(Bytes(text))>>

\* try { ExclusiveStartKey = JSON.parse(Buffer.from(nextToken, 'base64')
\*   .toString('utf8')) } catch {}: <<>> when absent, empty or not parsed.
DecodeToken(token) ==
  IF token = <<>> \/ token[1] = <<>> THEN <<>>
  ELSE parse(Utf8(Base64Decode(token[1])))

\* A token the handler issued, a token that is no base64 of JSON, and the
\* base64 of a JSON number.
TokenParams ==
  { <<>>,
    EncodeToken(<<KeyOfItem(SeedItem(<<"a">>, S_final, 0, <<"e","@","x">>))>>),
    << <<"!","!">> >>,
    <<Base64Encode(Bytes(stringify(JsonNumber)))>> }

\* The filters of a request that select the index, and the others.
IndexFilters == [email : EmailParams, status : StatusParams,
                 utm_source : UtmParams]

Filters == [from : FromParams, to : ToParams, limit : LimitParams,
            nextToken : TokenParams]

InitSearch ==
  /\ env \in SearchEnvs
  /\ s3 = SeedBucket
  /\ ddb = SeedTable
  /\ slugIn = <<>>
  /\ slugOut = <<>>
  /\ Idle

ingest == <<now, uuids, s3, ddb, pc, method, payload, receivedAt, status, doc,
            stored, key, calls, responses, pure>>

sjsonTwice(code, body) ==
  sresponses' = sresponses \o <<[code |-> code, body |-> body],
                                [code |-> code, body |-> body]>>

\* json(res, status, body) of the search handler.
sjson(code, body) ==
  sresponses' = Append(sresponses, [code |-> code, body |-> body])

AuthorizedWithoutSecret(qk, hk) ==
  LET keyParam == IF qk # <<>> /\ qk[1] # <<>> THEN qk ELSE hk
  IN  ~env["ADMIN_TOKEN"] \/ keyParam = <<AdminSecret>>

\* keyParam = searchParams.get('key') || headers['x-admin-key'];
\* !(!requiredKey || keyParam !== requiredKey)
Authorized(qk, hk) ==
  LET keyParam    == IF qk # <<>> /\ qk[1] # <<>> THEN qk ELSE hk
      requiredKey == IF env["ADMIN_TOKEN"] THEN <<AdminSecret>> ELSE <<>>
  IN  requiredKey # <<>> /\ keyParam = requiredKey

\* A request arrives, with its method, admin key and index filters, and goes
\* through the checks that precede the filters: method, admin key,
\* configuration.
SearchAuth ==
  /\ spc = "idle"
  /\ lpc = "idle"
  /\ \E m \in SearchMethods, qk \in KeyParams, hk \in KeyHeaders,
        f \in IndexFilters :
       /\ sreq' = [m |-> m, key |-> qk, xAdminKey |-> hk,
                   email |-> f.email, status |-> f.status,
                   utm_source |-> f.utm_source]
       /\ IF m = "OPTIONS"
          THEN sjson(204, EmptyObj) /\ spc' = "done"
          ELSE IF m # "GET"
          THEN sjson(405, [error |-> "Method Not Allowed"]) /\ spc' = "done"
          ELSE IF ~Authorized(qk, hk)
          THEN sjson(401, [error |-> "Unauthorized"]) /\ spc' = "done"
          ELSE IF ~env["AWS_REGION"]
          THEN sjson(500, [error |-> "DynamoDB not configured"]) /\ spc' = "done"
          ELSE UNCHANGED sresponses /\ spc' = "build"
  /\ UNCHANGED <<env, ingest, list, params, reads>>

IndexBranchStatusFirst(email, st, utm) ==
  IF st # <<>> THEN "status"
  ELSE IF email # <<>> THEN "email"
  ELSE IF utm # <<>> THEN "utm"
  ELSE "none"

IndexBranchNoReject(email, st, utm) ==
  IF email # <<>> THEN "email"
  ELSE IF st # <<>> THEN "status"
  ELSE "utm"

\* if (email) ... else if (status) ... else if (utm) ... else
IndexBranch(email, st, utm) ==
  IF email # <<>> THEN "email"
  ELSE IF st # <<>> THEN "status"
  ELSE IF utm # <<>> THEN "utm"
  ELSE "none"

\* One FilterExpression part, when the value is present.
Part(attr, val) == IF val # <<>> THEN <<[attr |-> attr, val |-> val]>> ELSE <<>>

\* The body of the branch taken: index, key condition, residual filter.
QueryOf(branch, email, st, utm, dateFrom, dateTo) ==
  CASE branch = "email" ->
         [IndexName |-> "byEmail", keyAttr |-> "email", keyVal |-> email,
          from |-> dateFrom, to |-> dateTo,
          filter |-> Part("status", st) \o Part("utm_source", utm)]
    [] branch = "status" ->
         [IndexName |-> "byStatusDate", keyAttr |-> "status", keyVal |-> st,
          from |-> dateFrom, to |-> dateTo,
          filter |-> Part("utm_source", utm) \o Part("email", email)]
    [] branch = "utm" ->
         [IndexName |-> "byUtmSource", keyAttr |-> "utm_source", keyVal |-> utm,
          from |-> dateFrom, to |-> dateTo,
          filter |-> Part("status", st)]

\* const dateFrom = from || '0000-01-01T00:00:00.000Z', dateTo likewise.
DefaultFrom == <<"0","T","0">>
DefaultTo   == <<"9","T","9">>

\* The filters read, the index chosen, the QueryCommand input built, for a
\* request whose other filters are q.
Build(q) ==
  LET st     == Trim(ParamOr(sreq, "status", <<>>))
      email  == Trim(ParamOr(sreq, "email", <<>>))
      utm    == Trim(ParamOr(sreq, "utm_source", <<>>))
      from   == Trim(ParamOr(q, "from", <<>>))
      to     == Trim(ParamOr(q, "to", <<>>))
      branch == IndexBranch(email, st, utm)
  IN  /\ sreq' = [k \in DOMAIN sreq \cup DOMAIN q |->
                    IF k \in DOMAIN q THEN q[k] ELSE sreq[k]]
      /\ IF branch = "none"
         THEN /\ sjson(400, [error |-> "Provide at least one of: email, status, utm_source"])
              /\ spc' = "done"
              /\ UNCHANGED params
         ELSE /\ params' =
                   [k \in DOMAIN QueryOf(branch, email, st, utm, from, to)
                            \cup {"Limit", "ExclusiveStartKey"} |->
                      CASE k = "Limit" -> LimitOf(q)
                        [] k = "ExclusiveStartKey" -> DecodeToken(q.nextToken)
                        [] OTHER ->
                             QueryOf(branch, email, st, utm,
                                     IF from # <<>> THEN from ELSE DefaultFrom,
                                     IF to # <<>> THEN to ELSE DefaultTo)[k]]
              /\ spc' = "read"
              /\ UNCHANGED sresponses

SearchBuild ==
  /\ spc = "build"
  /\ \E q \in Filters : Build(q)
  /\ UNCHANGED <<env, ingest, list, reads>>

\* The items the key condition selects.
Selected(table, prm) ==
  { i \in table : /\ Attr(i, prm.keyAttr) = prm.keyVal
                  /\ StrLeq(prm.from, Attr(i, "received_at"))
                  /\ StrLeq(Attr(i, "received_at"), prm.to) }

\* The item of a non-empty set that comes first in the index: by received_at,
\* then by id.
First(items) ==
  CHOOSE i \in items :
    \A j \in items :
      \/ i = j
      \/ Attr(i, "received_at") # Attr(j, "received_at")
           /\ StrLeq(Attr(i, "received_at"), Attr(j, "received_at"))
      \/ Attr(i, "received_at") = Attr(j, "received_at")
           /\ StrLeq(Attr(i, "id"), Attr(j, "id"))

RECURSIVE InOrder(_)
InOrder(items) ==
  IF items = {} THEN <<>>
  ELSE <<First(items)>> \o InOrder(items \ {First(items)})

Passes(item, filter) ==
  \A n \in DOMAIN filter : Attr(item, filter[n].attr) = filter[n].val

RECURSIVE Keep(_, _)
Keep(seq, filter) ==
  IF seq = <<>> THEN <<>>
  ELSE (IF Passes(Head(seq), filter) THEN <<Head(seq)>> ELSE <<>>)
         \o Keep(Tail(seq), filter)

\* The items after position k in the index.
After(all, k) ==
  IF k = <<>> THEN all
  ELSE LET later(i) ==
             \/ /\ Attr(i, "received_at") # k[1].received_at
                /\ StrLeq(k[1].received_at, Attr(i, "received_at"))
             \/ /\ Attr(i, "received_at") = k[1].received_at
                /\ Attr(i, "id") # k[1].id
                /\ StrLeq(k[1].id, Attr(i, "id"))
       IN  { i \in all : later(i) }

\* The table rejects a Limit below 1 and a start key that is no key.
ValidQuery(prm) ==
  /\ prm.Limit >= 1
  /\ prm.ExclusiveStartKey # <<>> => prm.ExclusiveStartKey[1].t = "key"

\* The answer of the table to a Query: at most Limit items are read in index
\* order from the start key on, the filter is applied to those, and the key of
\* the last item read is returned when the limit stopped the read.
Query(table, prm) ==
  LET all   == InOrder(After(Selected(table, prm), prm.ExclusiveStartKey))
      page  == SubSeq(all, 1, IF Len(all) < prm.Limit THEN Len(all) ELSE prm.Limit)
      items == Keep(page, prm.filter)
  IN  [Items |-> items, Count |-> Len(items),
       LastEvaluatedKey |->
         IF page # <<>> /\ Len(page) = prm.Limit
         THEN <<KeyOfItem(page[Len(page)])>>
         ELSE <<>>]

Null == [t |-> "null", v |-> <<>>]

\* obj[k] = v.S || v.N || v.BOOL || null
Flat(item) ==
  [a \in DOMAIN item |-> IF Attr(item, a) # <<>> THEN Str(Attr(item, a)) ELSE Null]

\* The read and the response.
SearchRead ==
  /\ spc = "read"
  /\ \E out \in IF ValidQuery(params) THEN Outcomes ELSE {"raise"} :
       /\ reads' = Append(reads, [params |-> params, out |-> out,
                                  last |-> IF out = "ok"
                                           THEN Query(ddb, params).LastEvaluatedKey
                                           ELSE <<>>])
       /\ IF out = "ok"
          THEN LET r == Query(ddb, params)
               IN  sjson(200, [count |-> r.Count,
                               items |-> [n \in DOMAIN r.Items |-> Flat(r.Items[n])],
                               nextToken |-> EncodeToken(r.LastEvaluatedKey)])
          ELSE sjson(500, [error |-> "Dynamo query failed"])
  /\ spc' = "done"
  /\ UNCHANGED <<env, ingest, list, sreq, params>>

\* ------------------------------------------------------------------ paging
\* The reads one client may chain.
MaxPages == 4

\* The client asks for the next page: the request it sent before, with the
\* nextToken of the response it got.  The request presents the same method
\* and admin key to the same configuration, so it passes the same checks.
SearchFollow ==
  /\ spc = "done"
  /\ reads # <<>>
  /\ Len(reads) < MaxPages
  /\ sresponses[Len(sresponses)].code = 200
  /\ sresponses[Len(sresponses)].body.nextToken # <<>>
  /\ sreq.m = "GET"
  /\ Authorized(sreq.key, sreq.xAdminKey)
  /\ env["AWS_REGION"]
  /\ Build([from |-> sreq.from, to |-> sreq.to, limit |-> sreq.limit,
            nextToken |-> sresponses[Len(sresponses)].body.nextToken])
  /\ UNCHANGED <<env, ingest, list, reads>>

InitPaging ==
  /\ InitSearch
  /\ env["ADMIN_TOKEN"]
  /\ env["AWS_REGION"]
  /\ ~env["AWS_S3_BUCKET"]

NextPaging ==
  \/ SearchAuth
  \/ SearchBuild
  \/ SearchRead
  \/ SearchFollow

SpecPaging == InitPaging /\ [][NextPaging]_vars

\* -------------------------------------------------------------- leads-list
ListStatusParams == { <<>>, <<<<"F","I","N","A","L">>>>, <<<<"n","e","w">>>> }

\* json(res, status, body) of the list handler.
ljson(code, body) ==
  lresponses' = Append(lresponses, [code |-> code, body |-> body])

\* A request arrives and goes through the checks: method, admin key,
\* configuration.
ListAuth ==
  /\ lpc = "idle"
  /\ spc = "idle"
  /\ \E m \in SearchMethods, qk \in KeyParams, hk \in KeyHeaders,
        st \in ListStatusParams, lim \in LimitParams :
       /\ lreq' = [m |-> m, key |-> qk, xAdminKey |-> hk,
                   status |-> st, limit |-> lim]
       /\ IF m = "OPTIONS"
          THEN ljson(204, EmptyObj) /\ lpc' = "done"
          ELSE IF m # "GET"
          THEN ljson(405, [error |-> "Method Not Allowed"]) /\ lpc' = "done"
          ELSE IF ~Authorized(qk, hk)
          THEN ljson(401, [error |-> "Unauthorized"]) /\ lpc' = "done"
          ELSE IF ~env["AWS_S3_BUCKET"] \/ ~env["AWS_REGION"]
          THEN /\ ljson(200, [items |-> <<>>, note |-> "S3 not configured"])
               /\ lpc' = "done"
          ELSE UNCHANGED lresponses /\ lpc' = "list"
  /\ UNCHANGED <<env, ingest, search, ltop, litems, lcalls>>

\* key.startsWith(prefix) and key.endsWith(suffix)
StartsWith(k, prefix) ==
  Len(k) >= Len(prefix) /\ SubSeq(k, 1, Len(prefix)) = prefix

EndsWith(k, suffix) ==
  Len(k) >= Len(suffix) /\ SubSeq(k, Len(k) - Len(suffix) + 1, Len(k)) = suffix

\* The Prefix of the listing.
ListPrefix(q) ==
  S_leads \o <<"/">> \o ToLowerCase(ParamOr(q, "status", S_final)) \o <<"/">>

\* The object of a non-empty set that comes first in a listing: by key.
FirstKey(objs) ==
  CHOOSE o \in objs : \A u \in objs : StrLeq(o.Key, u.Key)

\* ListObjectsV2: the objects under the prefix, in the order of their keys.
RECURSIVE ListObjectsV2(_, _)
ListObjectsV2(bucket, prefix) ==
  LET under == { o \in bucket : StartsWith(o.Key, prefix) }
  IN  IF under = {} THEN <<>>
      ELSE <<FirstKey(under)>> \o ListObjectsV2(under \ {FirstKey(under)}, prefix)

\* contents.filter(o => o.Key && o.Key.endsWith('.json'))
RECURSIVE JsonOnly(_)
JsonOnly(contents) ==
  IF contents = <<>> THEN <<>>
  ELSE (IF EndsWith(Head(contents).Key, <<".","j","s","o","n">>)
        THEN <<Head(contents)>> ELSE <<>>) \o JsonOnly(Tail(contents))

\* contents.sort((a, b) => b.LastModified - a.LastModified): newest first, the
\* objects of one instant in the order they had (the sort is stable).
RECURSIVE NewestFirst(_)
NewestFirst(contents) ==
  IF contents = <<>> THEN <<>>
  ELSE LET n == CHOOSE i \in DOMAIN contents :
                  /\ \A j \in DOMAIN contents :
                       contents[j].LastModified <= contents[i].LastModified
                  /\ \A j \in 1 .. i - 1 :
                       contents[j].LastModified < contents[i].LastModified
       IN  <<contents[n]>>
             \o NewestFirst(SubSeq(contents, 1, n - 1)
                              \o SubSeq(contents, n + 1, Len(contents)))

\* Array.prototype.slice(0, end): a negative end counts from the end of the
\* array.
Slice(seq, end) ==
  LET stop == IF end < 0 THEN (IF Len(seq) + end < 0 THEN 0 ELSE Len(seq) + end)
              ELSE (IF end < Len(seq) THEN end ELSE Len(seq))
  IN  SubSeq(seq, 1, stop)

\* The response after the loop.
ListRespond(items) == ljson(200, [items |-> items])

\* The listing: its objects are filtered, sorted and cut to the limit.
ListObjects ==
  /\ lpc = "list"
  /\ \E out \in Outcomes :
       LET prefix == ListPrefix(lreq)
           top    == Slice(NewestFirst(JsonOnly(ListObjectsV2(s3, prefix))),
                           LimitOf(lreq))
       IN  /\ lcalls' = Append(lcalls, [op |-> "list", key |-> prefix, out |-> out])
           /\ IF out = "raise"
              THEN /\ ljson(500, [error |-> "Failed to list leads"])
                   /\ lpc' = "done"
                   /\ UNCHANGED ltop
              ELSE /\ ltop' = [n \in DOMAIN top |-> top[n].Key]
                   /\ IF top = <<>>
                      THEN ListRespond(<<>>) /\ lpc' = "done"
                      ELSE UNCHANGED lresponses /\ lpc' = "get"
  /\ UNCHANGED <<env, ingest, search, lreq, litems>>

\* GetObject: the body of the object under the key.  Every object of the
\* bucket holds the JSON text of a document, which JSON.parse gives back.
GetObject(bucket, k) == (CHOOSE o \in bucket : o.Key = k).Body

\* One turn of the loop: the object is fetched and parsed, or skipped when
\* the fetch raises; after the last one the response is sent.
ListGet ==
  /\ lpc = "get"
  /\ \E out \in Outcomes :
       LET items == IF out = "ok"
                    THEN Append(litems, GetObject(s3, Head(ltop)))
                    ELSE litems
       IN  /\ lcalls' = Append(lcalls, [op |-> "get", key |-> Head(ltop), out |-> out])
           /\ litems' = items
           /\ ltop' = Tail(ltop)
           /\ IF Tail(ltop) = <<>>
              THEN ListRespond(items) /\ lpc' = "done"
              ELSE UNCHANGED <<lresponses, lpc>>
  /\ UNCHANGED <<env, ingest, search, lreq>>

\* One request to one of the two admin handlers.
NextSearch ==
  \/ SearchAuth
  \/ SearchBuild
  \/ SearchRead
  \/ ListAuth
  \/ ListObjects
  \/ ListGet

SpecSearch == InitSearch /\ [][NextSearch]_vars

\* ------------------------------------------------------- claims: ingestion
\* The positions at which a block of the handler, or its response, is next.
Running == {"storage", "index", "notify", "crmA", "crmB", "respond"}

\* Invocation p is handling a POST.
Posted(p) == pc[p] # "idle" /\ method[p] = "POST"

\* Past its last block.
Finishing(p) == pc[p] \in {"respond", "done"}

\* The calls invocation p has issued to a sink.
CallsOf(p, sink) == { i \in DOMAIN calls[p] : calls[p][i].sink = sink }

Called(p, sink) == CallsOf(p, sink) # {}

Raised(p, sink) == \E i \in CallsOf(p, sink) : calls[p][i].out = "raise"

\* C1: every POST is answered exactly once, with 200 and ok: true, whatever
\* each sink did: until the answer nothing has been sent and the handler is at
\* one of its blocks; after it exactly one response has been sent.
C1_AlwaysResponds200 ==
  \A p \in Procs :
    Posted(p) =>
      IF pc[p] = "done"
      THEN /\ Len(responses[p]) = 1
           /\ responses[p][1].code = 200
           /\ responses[p][1].body.ok = TRUE
      ELSE /\ responses[p] = <<>>
           /\ pc[p] \in Running

C1_Witness ==
  \E p \in Procs :
    /\ pc[p] = "done"
    /\ Len(calls[p]) = 5
    /\ \A i \in DOMAIN calls[p] : calls[p][i].out = "raise"
    /\ responses[p][1].code = 200

\* C2: after a storage write that raised, stored is "error" and the key is
\* empty: the index item's s3_key is empty, the email names '(none)', and the
\* response is 200 with stored "error" and key "".
C2_FailedWriteEmptyKey ==
  \A p \in Procs :
    Raised(p, "s3") =>
      /\ stored[p] = "error"
      /\ key[p] = <<>>
      /\ \A i \in CallsOf(p, "ddb") : calls[p][i].key = <<>>
      /\ \A i \in CallsOf(p, "ses") : calls[p][i].key = S_none
      /\ pc[p] = "done" =>
           /\ responses[p][1].code = 200
           /\ responses[p][1].body.stored = "error"
           /\ responses[p][1].body.key = <<>>

C2_Witness ==
  \E p \in Procs :
    /\ pc[p] = "done"
    /\ Raised(p, "s3")
    /\ \E i \in CallsOf(p, "ddb") : calls[p][i].out = "ok"
    /\ \E i \in CallsOf(p, "ses") : calls[p][i].out = "ok"

\* The response a request is owed, from its document and its storage call
\* alone.
OwedResponse(p) ==
  LET w == CallsOf(p, "s3")
      c == calls[p][CHOOSE i \in w : TRUE]
  IN  [code |-> 200,
       body |-> [ok     |-> TRUE,
                 stored |-> IF w = {} THEN "none"
                            ELSE IF c.out = "ok" THEN "s3" ELSE "error",
                 key    |-> IF w # {} /\ c.out = "ok" THEN c.key ELSE <<>>,
                 id     |-> doc[p]["id"],
                 status |-> doc[p]["status"]]]

\* C3: for a final submission with both CRM credentials set, both CRM calls
\* are issued whatever the outcome of the first, and the response is the one
\* owed whatever the outcome of either.
C3_CrmIsolation ==
  \A p \in Procs :
    (Posted(p) /\ Finishing(p) /\ status[p] = S_final
       /\ env["HUBSPOT_TOKEN"] /\ env["CLOSE_API_KEY"]) =>
      /\ Called(p, "hubspot")
      /\ Called(p, "close")
      /\ pc[p] = "done" => responses[p] = <<OwedResponse(p)>>

C3_Witness ==
  \E p \in Procs :
    /\ pc[p] = "done"
    /\ Raised(p, "hubspot")
    /\ \E i \in CallsOf(p, "close") : calls[p][i].out = "ok"
    /\ responses[p] = <<OwedResponse(p)>>

\* The place of a sink, and of a position of the handler, in the order
\* storage, index, notification, CRM A, CRM B, response.
SinkRank(sink) ==
  CASE sink = "s3" -> 1 [] sink = "ddb" -> 2 [] sink = "ses" -> 3
    [] sink = "hubspot" -> 4 [] sink = "close" -> 5

PcRank(at) ==
  CASE at = "idle" -> 0 [] at = "storage" -> 1 [] at = "index" -> 2
    [] at = "notify" -> 3 [] at = "crmA" -> 4 [] at = "crmB" -> 5
    [] OTHER -> 6

SinkConfigured(p, sink) ==
  CASE sink = "s3"      -> StorageConfigured
    [] sink = "ddb"     -> IndexConfigured
    [] sink = "ses"     -> status[p] = S_final /\ env["SES_TO"] /\ env["SES_FROM"]
                             /\ (env["SES_REGION"] \/ env["AWS_REGION"])
    [] sink = "hubspot" -> status[p] = S_final /\ env["HUBSPOT_TOKEN"]
    [] sink = "close"   -> status[p] = S_final /\ env["CLOSE_API_KEY"]

Sinks == {"s3", "ddb", "ses", "hubspot", "close"}

\* C4: the sinks are called in the order storage, index, notification, CRM A,
\* CRM B, each at most once; a configured sink has been called as soon as the
\* handler is past its block, whatever the earlier outcomes; a response is
\* sent only after the last block.
C4_StageOrder ==
  \A p \in Procs :
    /\ \A i, j \in DOMAIN calls[p] :
         i < j => SinkRank(calls[p][i].sink) < SinkRank(calls[p][j].sink)
    /\ \A i \in DOMAIN calls[p] : SinkRank(calls[p][i].sink) < PcRank(pc[p])
    /\ Posted(p) =>
         \A sink \in Sinks :
           (SinkConfigured(p, sink) /\ SinkRank(sink) < PcRank(pc[p]))
             => Called(p, sink)
    /\ responses[p] # <<>> => pc[p] = "done"

C4_Witness ==
  \E p \in Procs :
    /\ pc[p] = "done"
    /\ Len(calls[p]) = 5
    /\ calls[p][1].sink = "s3" /\ calls[p][1].out = "raise"
    /\ calls[p][2].sink = "ddb" /\ calls[p][2].out = "ok"
    /\ calls[p][5].sink = "close"

\* C5: an email is sent only for a final status with destination, source and
\* region set; each CRM call only for a final status with its credential set;
\* a submission that is not final calls neither, and still has its storage and
\* index writes attempted when those are configured.
C5_FinalOnlySinks ==
  \A p \in Procs :
    /\ \A sink \in {"ses", "hubspot", "close"} :
         Called(p, sink) => SinkConfigured(p, sink)
    /\ (Posted(p) /\ Finishing(p) /\ status[p] # S_final) =>
         /\ ~Called(p, "ses") /\ ~Called(p, "hubspot") /\ ~Called(p, "close")
         /\ StorageConfigured => Called(p, "s3")
         /\ IndexConfigured => Called(p, "ddb")

C5_Witness ==
  \E p \in Procs :
    /\ pc[p] = "done" /\ method[p] = "POST"
    /\ status[p] # S_final
    /\ env["SES_TO"] /\ env["SES_FROM"] /\ env["AWS_REGION"]
    /\ env["HUBSPOT_TOKEN"] /\ env["CLOSE_API_KEY"]
    /\ Called(p, "s3") /\ Called(p, "ddb")
    /\ Len(calls[p]) = 2

\* The body of a finished POST's response.
Answer(p) == responses[p][1].body

Answered(p) == pc[p] = "done" /\ method[p] = "POST"

\* C6: the response's status is the supplied status lower-cased when the body's
\* status is a non-empty string, and "final" otherwise.
C6_ResponseStatusLowerCased ==
  \A p \in Procs :
    Answered(p) =>
      Answer(p).status =
        IF Has(payload[p], "status") /\ payload[p]["status"].t = "str"
             /\ payload[p]["status"].v # <<>>
        THEN Str(ToLowerCase(payload[p]["status"].v))
        ELSE Str(S_final)

\* C7: the response's id is the supplied id when the body's id is a non-empty
\* string, and otherwise a generated identifier, never the body's value.
C7_ResponseIdSuppliedOrGenerated ==
  \A p \in Procs :
    Answered(p) =>
      IF Has(payload[p], "id") /\ payload[p]["id"].t = "str"
           /\ payload[p]["id"].v # <<>>
      THEN Answer(p).id = payload[p]["id"]
      ELSE \E n \in 0 .. uuids - 1 : Answer(p).id = Str(uuid(n))

\* C8: in the document, and in what is stored and indexed from it, id, status,
\* received_at and ip are the server's values even when the body names them.
C8_ServerFieldsWin ==
  \A p \in Procs :
    Posted(p) =>
      /\ doc[p]["status"] = Str(status[p])
      /\ doc[p]["received_at"] = Str(toISOString(receivedAt[p]))
      /\ doc[p]["ip"] = Str(HeaderIp)
      /\ \/ doc[p]["id"] \in { Str(uuid(n)) : n \in 0 .. uuids - 1 }
         \/ /\ Has(payload[p], "id")
            /\ payload[p]["id"].t = "str"
            /\ payload[p]["id"].v # <<>>
            /\ doc[p]["id"] = payload[p]["id"]
      /\ \A o \in s3 :
           o.Body["received_at"] \in { Str(toISOString(t)) : t \in 0 .. MaxClock }
      /\ \A i \in ddb :
           i.received_at \in { Str(toISOString(t)) : t \in 0 .. MaxClock }

\* C9: an object once written to the bucket stays as it is, key and content,
\* whatever is submitted afterwards.
C9_StoredObjectsImmutable == [][\A o \in s3 : o \in s3']_vars

\* Every invocation has answered a POST, and no call to a sink raised.
AllAnswered ==
  \A p \in Procs :
    /\ Answered(p)
    /\ \A i \in DOMAIN calls[p] : calls[p][i].out = "ok"

\* The invocations carried the same id, status and date.
SameKeyInputs ==
  \A p, q \in Procs :
    /\ doc[p]["id"] = doc[q]["id"]
    /\ status[p] = status[q]
    /\ DatePart(toISOString(receivedAt[p])) = DatePart(toISOString(receivedAt[q]))

\* C18: once concurrent submissions of one id have all been answered, the
\* index item of that id and the object its s3_key names hold the received_at
\* of the same request.
C18_IndexAgreesWithStorage ==
  (AllAnswered /\ SameKeyInputs) =>
    \A i \in ddb :
      i.s3_key # <<>> =>
        \E o \in s3 : o.Key = i.s3_key /\ o.Body["received_at"] = i.received_at

\* C19: in a response the key is non-empty exactly when stored is "s3";
\* stored is "none" exactly when no storage write was attempted, which is when
\* the bucket or the region is not configured, and "error" exactly when a
\* write was attempted and raised; the s3_key of an index item written is the
\* key of the response.
C19_StoredAndKeyAgree ==
  \A p \in Procs :
    Answered(p) =>
      /\ Answer(p).key # <<>> <=> Answer(p).stored = "s3"
      /\ Answer(p).stored = "none" <=> ~Called(p, "s3")
      /\ ~Called(p, "s3") <=> ~(env["AWS_S3_BUCKET"] /\ env["AWS_REGION"])
      /\ Answer(p).stored = "error" <=> Raised(p, "s3")
      /\ Answer(p).stored \in {"s3", "none", "error"}
      /\ \A i \in CallsOf(p, "ddb") : calls[p][i].key = Answer(p).key
      /\ \A i \in ddb : i.s3_key = Answer(p).key

C19_Witness ==
  \E p \in Procs :
    /\ Answered(p)
    /\ Answer(p).stored = "s3"
    /\ Answer(p).key # <<>>
    /\ \E i \in ddb : i.s3_key = Answer(p).key
    /\ \E o \in s3 : o.Key = Answer(p).key

\* ---------------------------------------------------------- claims: search
\* The filters of the request have been read.
FiltersRead == "limit" \in DOMAIN sreq

\* A filter of the request, trimmed: <<>> when absent or blank.
Supplied(f) == Trim(ParamOr(sreq, f, <<>>))

IndexKeys == {"email", "status", "utm_source"}

\* C10: the index is the email index whenever email is supplied, else the
\* status index whenever status is supplied, else the utm index, whatever
\* from, to, limit and nextToken are; its key condition is on the supplied
\* value, and the residual filter holds exactly the other supplied filters.
C10_IndexChoice ==
  (FiltersRead /\ \E f \in IndexKeys : Supplied(f) # <<>>) =>
    LET attr == IF Supplied("email") # <<>> THEN "email"
                ELSE IF Supplied("status") # <<>> THEN "status"
                ELSE "utm_source"
    IN  /\ params.IndexName = CASE attr = "email" -> "byEmail"
                                [] attr = "status" -> "byStatusDate"
                                [] OTHER -> "byUtmSource"
        /\ params.keyAttr = attr
        /\ params.keyVal = Supplied(attr)
        /\ \A f \in IndexKeys \ {attr} :
             Supplied(f) # <<>> <=>
               \E n \in DOMAIN params.filter :
                 params.filter[n] = [attr |-> f, val |-> Supplied(f)]
        /\ \A n \in DOMAIN params.filter : params.filter[n].attr # attr
        /\ \A n \in DOMAIN reads : reads[n].params = params

C10_Witness ==
  /\ spc = "done"
  /\ Len(reads) = 1
  /\ Supplied("email") # <<>> /\ Supplied("status") # <<>>
  /\ Supplied("utm_source") # <<>>
  /\ sreq["from"] # <<>> /\ sreq["limit"] # <<>> /\ sreq["nextToken"] # <<>>
  /\ reads[1].params.IndexName = "byEmail"
  /\ Len(reads[1].params.filter) = 2

\* The request is a GET that carries the admin secret: in the key parameter,
\* or in the x-admin-key header when there is no key parameter.
KeyAccepted ==
  /\ spc # "idle"
  /\ sreq.m = "GET"
  /\ env["ADMIN_TOKEN"]
  /\ (IF sreq.key # <<>> /\ sreq.key[1] # <<>> THEN sreq.key ELSE sreq.xAdminKey)
       = <<AdminSecret>>

\* None of email, status, utm_source is supplied.
NoIndexFilter == \A f \in IndexKeys : Supplied(f) = <<>>

MissingFilter ==
  [code |-> 400,
   body |-> [error |-> "Provide at least one of: email, status, utm_source"]]

NotConfigured == [code |-> 500, body |-> [error |-> "DynamoDB not configured"]]

\* C11, as stated: a GET with a valid admin key and none of email, status,
\* utm_source is always answered with the 400 validation error, and no read
\* is attempted.
C11_NoFilterAlways400 ==
  (KeyAccepted /\ NoIndexFilter) =>
    /\ reads = <<>>
    /\ spc = "done" => sresponses = <<MissingFilter>>

\* C11, amended: a GET with a valid admin key and none of email, status,
\* utm_source never reaches the read; it is answered with the 400 validation
\* error when the region is configured, and with the 500 configuration error
\* otherwise.
C11_NoFilterRejected ==
  (KeyAccepted /\ NoIndexFilter) =>
    /\ reads = <<>>
    /\ spc # "read"
    /\ spc = "done" =>
         sresponses = <<IF env["AWS_REGION"] THEN MissingFilter ELSE NotConfigured>>

C11_Witness ==
  /\ spc = "done"
  /\ KeyAccepted
  /\ NoIndexFilter
  /\ FiltersRead
  /\ sreq["status"] # <<>>
  /\ sreq["limit"] # <<>> /\ sreq["nextToken"] # <<>>
  /\ sresponses = <<MissingFilter>>
  /\ reads = <<>>

\* The admin key a request presents is the configured secret.
KeyMatches(q) ==
  /\ env["ADMIN_TOKEN"]
  /\ (IF q.key # <<>> /\ q.key[1] # <<>> THEN q.key ELSE q.xAdminKey)
       = <<AdminSecret>>

Unauthorized == [code |-> 401, body |-> [error |-> "Unauthorized"]]

\* C12: a GET to leads-search or leads-list whose admin key is absent or is
\* not the configured secret, or that arrives when no secret is configured,
\* is answered 401 whatever its other parameters and the configuration, and
\* no read of the table or of the bucket is issued.
C12_BadKeyUnauthorized ==
  /\ (spc # "idle" /\ sreq.m = "GET" /\ ~KeyMatches(sreq)) =>
       /\ spc = "done"
       /\ sresponses = <<Unauthorized>>
       /\ reads = <<>>
  /\ (lpc # "idle" /\ lreq.m = "GET" /\ ~KeyMatches(lreq)) =>
       /\ lpc = "done"
       /\ lresponses = <<Unauthorized>>
       /\ lcalls = <<>>

C12_Witness ==
  /\ lpc = "done"
  /\ lreq.m = "GET"
  /\ lreq.key = <<WrongKey>>
  /\ lreq.xAdminKey = <<AdminSecret>>
  /\ lreq.limit # <<>> /\ lreq.status # <<>>
  /\ env["ADMIN_TOKEN"] /\ env["AWS_S3_BUCKET"] /\ env["AWS_REGION"]
  /\ lresponses = <<Unauthorized>>
  /\ lcalls = <<>>

QueryFailed == [code |-> 500, body |-> [error |-> "Dynamo query failed"]]

\* The request passes the method, admin-key, configuration and filter checks.
PassesChecks == KeyAccepted /\ env["AWS_REGION"] /\ ~NoIndexFilter

\* C13: a leads-search request issues at most one read and, once handled, has
\* been sent exactly one response; a request that passes the checks issues
\* exactly one read and is answered 200 with count, items and nextToken when
\* the read succeeds and 500 when it raises; a rejected request issues none.
C13_OneReadOneResponse ==
  /\ Len(reads) <= 1
  /\ Len(sresponses) = IF spc = "done" THEN 1 ELSE 0
  /\ spc = "done" =>
       IF PassesChecks
       THEN /\ Len(reads) = 1
            /\ IF reads[1].out = "ok"
               THEN /\ sresponses[1].code = 200
                    /\ DOMAIN sresponses[1].body = {"count", "items", "nextToken"}
               ELSE sresponses[1] = QueryFailed
       ELSE /\ reads = <<>>
            /\ sresponses[1].code \in {204, 405, 401, 400, 500}
            /\ sresponses[1] # QueryFailed

C13_Witness ==
  /\ spc = "done"
  /\ PassesChecks
  /\ Len(reads) = 1
  /\ reads[1].out = "ok"
  /\ Len(sresponses) = 1
  /\ sresponses[1].code = 200
  /\ sresponses[1].body.count = 1
  /\ sresponses[1].body.nextToken # <<>>

\* The tokens encode produces: one for each position of the table.
IssuedTokens == { EncodeToken(<<KeyOfItem(i)>>) : i \in SeedTable }

\* The responses the request would get without its nextToken: that of the
\* read from the beginning, or that of a read that raises.
WithoutToken ==
  LET p == [params EXCEPT !.ExclusiveStartKey = <<>>]
      r == Query(ddb, p)
  IN  { QueryFailed }
        \cup (IF ValidQuery(p)
              THEN { [code |-> 200,
                      body |-> [count |-> r.Count,
                                items |-> [n \in DOMAIN r.Items |-> Flat(r.Items[n])],
                                nextToken |-> EncodeToken(r.LastEvaluatedKey)]] }
              ELSE {})

\* C15: a nextToken that encode did not produce yields no cursor: the read is
\* issued without a resume position, and the request is answered as the same
\* request without nextToken would be.
C15_ForeignTokenIgnored ==
  (FiltersRead /\ spc \in {"read", "done"} /\ ~NoIndexFilter
     /\ sreq.nextToken # <<>> /\ sreq.nextToken \notin IssuedTokens) =>
    /\ params.ExclusiveStartKey = <<>>
    /\ \A n \in DOMAIN reads : reads[n].params.ExclusiveStartKey = <<>>
    /\ spc = "done" => sresponses[1] \in WithoutToken

\* The QueryCommand input of the request has been built.
ParamsBuilt == FiltersRead /\ spc \in {"read", "done"} /\ ~NoIndexFilter

\* C16: the Limit passed to the read is 50 when the limit parameter is absent
\* and never exceeds 200 whatever is supplied, and a 200 response never holds
\* more items than that Limit.
C16_LimitDefaultAndCap ==
  ParamsBuilt =>
    /\ sreq.limit = <<>> => params.Limit = 50
    /\ params.Limit <= 200
    /\ \A n \in DOMAIN reads : reads[n].params.Limit = params.Limit
    /\ \A n \in DOMAIN sresponses :
         sresponses[n].code = 200 =>
           /\ Len(sresponses[n].body.items) <= params.Limit
           /\ sresponses[n].body.count = Len(sresponses[n].body.items)

C16_Witness ==
  /\ ParamsBuilt
  /\ spc = "done"
  /\ sreq.limit = << <<"1">> >>
  /\ params.Limit = 1
  /\ Cardinality(Selected(ddb, params)) = 3
  /\ sresponses[1].code = 200
  /\ Len(sresponses[1].body.items) = 1
  /\ sresponses[1].body.nextToken # <<>>

\* The list handler has computed its limit: the request passed the checks.
ListLimitRead == lpc \in {"list", "get"} \/ lcalls # <<>>

\* C20: whatever the limit parameter is (absent, zero, negative, not a number,
\* above 200), the Limit passed to the read by leads-search and the limit
\* leads-list cuts its listing to are integers from 1 to 200.
C20_LimitInRange ==
  /\ ParamsBuilt => params.Limit \in 1 .. 200
  /\ \A n \in DOMAIN reads : reads[n].params.Limit \in 1 .. 200
  /\ ListLimitRead =>
       /\ LimitOf(lreq) \in 1 .. 200
       /\ \A n \in DOMAIN lcalls :
            (lcalls[n].op = "list" /\ lcalls[n].out = "ok") =>
              LET all == NewestFirst(JsonOnly(ListObjectsV2(s3, lcalls[n].key)))
              IN  Len(ltop) + Len(lcalls) - 1
                    = IF Len(all) < LimitOf(lreq) THEN Len(all) ELSE LimitOf(lreq)

\* ------------------------------------------------------------ claims: slug
\* C17: slug applied to its own result gives that result again, for every
\* string; a string that is empty or holds no letter and no digit gives "na".
C17_SlugIdempotent ==
  /\ Len(slugOut) = 2 => slugOut[2] = slugOut[1]
  /\ (slugOut # <<>> /\ \A i \in DOMAIN slugIn : ~IsAlnum(ToLowerChar(slugIn[i])))
       => slugOut[1] = S_na

C17_Witness ==
  /\ slugIn = <<" ", "B", "-">>
  /\ slugOut = << <<"b">>, <<"b">> >>

\* ---------------------------------------------------------- claims: paging
\* The items of the 200 responses up to the n-th, in the order sent.
RECURSIVE ItemsUpTo(_)
ItemsUpTo(n) ==
  IF n = 0 THEN <<>>
  ELSE ItemsUpTo(n - 1)
         \o (IF sresponses[n].code = 200 THEN sresponses[n].body.items ELSE <<>>)

\* What the first read of the chain would give were it not cut into pages.
Unpaged ==
  LET p == reads[1].params
      all == Keep(InOrder(After(Selected(ddb, p), p.ExclusiveStartKey)), p.filter)
  IN  [n \in DOMAIN all |-> Flat(all[n])]

\* C14: the nextToken of a response decodes to the last key its read
\* evaluated; the next request of the chain resumes from exactly that key
\* with the same query; and the pages, put end to end, are the start of the
\* unpaged result, and the whole of it once a read evaluates no last key.
C14_CursorRoundTrip ==
  reads # <<>> =>
    /\ \A n \in DOMAIN sresponses :
         reads[n].out = "ok" =>
           /\ DecodeToken(sresponses[n].body.nextToken) = reads[n].last
           /\ n + 1 \in DOMAIN reads =>
                /\ reads[n].last # <<>>
                /\ reads[n + 1].params =
                     [reads[n].params EXCEPT !.ExclusiveStartKey = reads[n].last]
    /\ \A n \in DOMAIN reads : n > 1 => reads[n - 1].out = "ok"
    /\ LET got == ItemsUpTo(Len(sresponses))
       IN  /\ Len(got) <= Len(Unpaged)
           /\ got = SubSeq(Unpaged, 1, Len(got))
           /\ (spc = "done" /\ reads[Len(reads)].out = "ok"
                 /\ reads[Len(reads)].last = <<>>) => got = Unpaged

C14_Witness ==
  /\ spc = "done"
  /\ Len(reads) = 3
  /\ reads[1].params.ExclusiveStartKey = <<>>
  /\ reads[1].params.Limit = 1
  /\ reads[3].out = "ok"
  /\ reads[2].last # <<>> /\ reads[2].last # reads[1].last
  /\ reads[3].params.ExclusiveStartKey = reads[2].last
  /\ Len(ItemsUpTo(3)) = 3
  /\ ItemsUpTo(3) = Unpaged

====
